---- MODULE Spec2Model ----
(***************************************************************************)
(* Model of make_chart5_data.py: the key normalizer (_norm), the numeric   *)
(* coercer (as_float), the four per-source loaders and the join            *)
(* (build_long_rows).                                                      *)
(*                                                                         *)
(* Representation of Python / JSON values (tagged tuples):                 *)
(*   <<"null">>            None (JSON null, and the result of r.get on a   *)
(*                         missing field)                                  *)
(*   <<"num", n, d>>       the number n/d in lowest terms, d > 0           *)
(*   <<"bool", b>>         True / False                                    *)
(*   <<"str", cs>>         a string; cs is the sequence of its characters  *)
(*   <<"list", xs>>        a JSON array                                    *)
(*   <<"dict", f>>         a JSON object; f maps field names to values     *)
(*   <<"absent">>          a file that does not exist (Path.exists false)  *)
(* A character is a one-token string.  Tokens outside ASCII are named:     *)
(*   "a~" "A~"  U+00E3 / U+00C3 (a with tilde, precomposed)                *)
(*   "a'" "A'"  U+00E1 / U+00C1 (a with acute, precomposed)                *)
(*   "U+0303" "U+0301"  combining tilde / combining acute                  *)
(*   "U+00B2"   SUPERSCRIPT TWO: str.isdigit() is True, int() rejects it   *)
(* A Python dict is a sequence of <<key, value>> pairs in insertion order. *)
(***************************************************************************)
EXTENDS Integers, Sequences, FiniteSets, TLC

VARIABLES
    fn,             \* the function whose call is modelled
    pc,             \* position inside it
    BF_FILE, SAN_FILE, EDU_FILE, UNEMP_FILE,   \* the four source files
    rows,           \* loader local: read_json(FILE)
    i,              \* loader local: number of elements of rows consumed
    out,            \* loader local `out`
    best,           \* load_education local `best`
    by_state_year,  \* load_unemployment local `by_state_year`
    bf, sanitation, education, unemployment,   \* build_long_rows locals
    long_rows,      \* build_long_rows local `out`
    added, missing, \* build_long_rows counters
    name, variant   \* a display name and a variant spelling of it

vars == <<fn, pc, BF_FILE, SAN_FILE, EDU_FILE, UNEMP_FILE, rows, i, out, best,
          by_state_year, bf, sanitation, education, unemployment, long_rows,
          added, missing, name, variant>>

-----------------------------------------------------------------------------
(* Python values *)

None == <<"null">>

RECURSIVE Gcd(_, _)
Gcd(a, b) == IF b = 0 THEN a ELSE Gcd(b, a % b)

Abs(n) == IF n < 0 THEN -n ELSE n

\* the float n/d
Num(n, d) == LET g == Gcd(Abs(n), d) IN <<"num", n \div g, d \div g>>

Str(cs) == <<"str", cs>>

Dict(f) == <<"dict", f>>

\* isinstance(x, str), isinstance(x, dict), isinstance(x, list)
IsStr(x) == x[1] = "str"
IsDict(x) == x[1] = "dict"
IsList(x) == x[1] = "list"

\* r.get(k) on a dict r
Get(r, k) == IF k \in DOMAIN r[2] THEN r[2][k] ELSE None

\* Python truthiness, as used by `a or b`
Truthy(x) ==
    CASE x[1] = "null" -> FALSE
      [] x[1] = "bool" -> x[2]
      [] x[1] = "num"  -> x[2] # 0
      [] x[1] = "str"  -> x[2] # <<>>
      [] x[1] = "list" -> x[2] # <<>>
      [] x[1] = "dict" -> DOMAIN x[2] # {}
      [] OTHER -> TRUE

-----------------------------------------------------------------------------
(* Characters and the str methods the program uses *)

LowerLetters == <<"a", "b", "c", "h", "i", "l", "o", "p", "q", "r", "s", "u", "x", "a~", "a'">>
UpperLetters == <<"A", "B", "C", "H", "I", "L", "O", "P", "Q", "R", "S", "U", "X", "A~", "A'">>

Whitespace == {" "}

DecimalDigits == <<"0", "1", "2", "3", "4", "5", "6", "7", "8", "9">>

Range(s) == {s[j] : j \in DOMAIN s}

IndexOf(s, c) == CHOOSE j \in DOMAIN s : s[j] = c

\* str.lower() and str.upper(), one character
LowerChar(c) == IF c \in Range(UpperLetters) THEN LowerLetters[IndexOf(UpperLetters, c)] ELSE c
UpperChar(c) == IF c \in Range(LowerLetters) THEN UpperLetters[IndexOf(LowerLetters, c)] ELSE c

Lower(s) == [j \in DOMAIN s |-> LowerChar(s[j])]
Upper(s) == [j \in DOMAIN s |-> UpperChar(s[j])]

RECURSIVE LStrip(_)
LStrip(s) == IF s # <<>> /\ s[1] \in Whitespace THEN LStrip(Tail(s)) ELSE s

RECURSIVE RStrip(_)
RStrip(s) ==
    IF s # <<>> /\ s[Len(s)] \in Whitespace THEN RStrip(SubSeq(s, 1, Len(s) - 1)) ELSE s

\* str.strip()
Strip(s) == RStrip(LStrip(s))

\* str.replace(a, b) for one-character a; b is a string
RECURSIVE Replace(_, _, _)
Replace(s, a, b) ==
    IF s = <<>> THEN <<>>
    ELSE (IF s[1] = a THEN b ELSE <<s[1]>>) \o Replace(Tail(s), a, b)

\* str.split(): the maximal runs of non-whitespace characters
RECURSIVE SplitFrom(_, _)
SplitFrom(s, word) ==
    IF s = <<>> THEN (IF word = <<>> THEN <<>> ELSE <<word>>)
    ELSE IF s[1] \in Whitespace
         THEN (IF word = <<>> THEN <<>> ELSE <<word>>) \o SplitFrom(Tail(s), <<>>)
         ELSE SplitFrom(Tail(s), Append(word, s[1]))

Split(s) == SplitFrom(s, <<>>)

\* sep.join(words)
RECURSIVE Join(_, _)
Join(sep, words) ==
    IF words = <<>> THEN <<>>
    ELSE IF Len(words) = 1 THEN words[1]
    ELSE words[1] \o sep \o Join(sep, Tail(words))

\* unicodedata.normalize("NFKD", c) for one character
Decompose(c) ==
    CASE c = "a~" -> <<"a", "U+0303">>
      [] c = "A~" -> <<"A", "U+0303">>
      [] c = "a'" -> <<"a", "U+0301">>
      [] c = "A'" -> <<"A", "U+0301">>
      [] OTHER -> <<c>>

RECURSIVE NFKD(_)
NFKD(s) == IF s = <<>> THEN <<>> ELSE Decompose(s[1]) \o NFKD(Tail(s))

\* unicodedata.combining(c) # 0
Combining(c) == c \in {"U+0303", "U+0301"}

RECURSIVE DropCombining(_)
DropCombining(s) ==
    IF s = <<>> THEN <<>>
    ELSE (IF Combining(s[1]) THEN <<>> ELSE <<s[1]>>) \o DropCombining(Tail(s))

\* _norm without s.replace("-", " ")
_norm_nohyphen(s) ==
    Join(<<" ">>, Split(DropCombining(NFKD(Lower(Strip(s))))))

\* _norm, lines 53-60
_norm(s) ==
    LET s1 == Lower(Strip(s))
        s2 == DropCombining(NFKD(s1))
        s3 == Replace(s2, "-", <<" ">>)
    IN  Join(<<" ">>, Split(s3))

-----------------------------------------------------------------------------
(* Numeric coercion *)

RECURSIVE Pow10(_)
Pow10(k) == IF k = 0 THEN 1 ELSE 10 * Pow10(k - 1)

\* value of a sequence of decimal digits (0 for the empty sequence)
RECURSIVE DigitsVal(_)
DigitsVal(s) ==
    IF s = <<>> THEN 0
    ELSE 10 * DigitsVal(SubSeq(s, 1, Len(s) - 1)) + (IndexOf(DecimalDigits, s[Len(s)]) - 1)

AllDecimal(s) == \A j \in DOMAIN s : s[j] \in Range(DecimalDigits)

\* float(s) for a string s, on the decimal-literal part of its grammar:
\* [whitespace] [sign] digits [. digits] [whitespace]; None stands for ValueError
ParseFloat(s) ==
    LET t == Strip(s)
        signed == t # <<>> /\ t[1] \in {"+", "-"}
        sgn == IF t # <<>> /\ t[1] = "-" THEN -1 ELSE 1
        u == IF signed THEN Tail(t) ELSE t
        dots == {j \in DOMAIN u : u[j] = "."}
        p == IF dots = {} THEN Len(u) + 1 ELSE CHOOSE j \in dots : TRUE
        ip == SubSeq(u, 1, p - 1)
        fp == SubSeq(u, p + 1, Len(u))
    IN  IF Cardinality(dots) > 1 \/ ~AllDecimal(ip) \/ ~AllDecimal(fp)
           \/ Len(ip) + Len(fp) = 0
        THEN None
        ELSE Num(sgn * (DigitsVal(ip) * Pow10(Len(fp)) + DigitsVal(fp)), Pow10(Len(fp)))

\* as_float with `if x is None: return 0.0`
as_float_none_is_zero(x) ==
    CASE x[1] = "null" -> Num(0, 1)
      [] x[1] = "num"  -> x
      [] x[1] = "bool" -> Num(IF x[2] THEN 1 ELSE 0, 1)
      [] x[1] = "str"  ->
            LET s == Strip(x[2])
            IN  IF s = <<>> THEN None
                ELSE ParseFloat(Replace(Replace(s, "%", <<>>), ",", <<".">>))
      [] OTHER -> None

\* as_float: the try body; every exception becomes None
as_float(x) ==
    CASE x[1] = "null" -> None
      [] x[1] = "num"  -> x
      [] x[1] = "bool" -> Num(IF x[2] THEN 1 ELSE 0, 1)
      [] x[1] = "str"  ->
            LET s == Strip(x[2])
            IN  IF s = <<>> THEN None
                ELSE ParseFloat(Replace(Replace(s, "%", <<>>), ",", <<".">>))
      [] OTHER -> None

-----------------------------------------------------------------------------
(* Python dict: a sequence of <<key, value>> pairs in insertion order *)

DictHas(d, k) == \E j \in DOMAIN d : d[j][1] = k

\* d[k], for k in d
DictGet(d, k) == d[CHOOSE j \in DOMAIN d : d[j][1] = k][2]

\* d[k] = v: an existing key keeps its position
DictSet(d, k, v) ==
    IF DictHas(d, k)
    THEN [j \in DOMAIN d |-> IF d[j][1] = k THEN <<k, v>> ELSE d[j]]
    ELSE Append(d, <<k, v>>)

DictKeys(d) == {d[j][1] : j \in DOMAIN d}

RECURSIVE SetToSeq(_)
SetToSeq(S) == IF S = {} THEN <<>> ELSE LET x == CHOOSE x \in S : TRUE IN <<x>> \o SetToSeq(S \ {x})

\* `for r in rows` can iterate a list, the keys of a dict, the characters of a str
Iterable(x) == x[1] \in {"list", "dict", "str"}

Iter(x) ==
    CASE x[1] = "list" -> x[2]
      [] x[1] = "dict" -> LET ks == SetToSeq(DOMAIN x[2]) IN [j \in DOMAIN ks |-> Str(<<ks[j]>>)]
      [] x[1] = "str"  -> [j \in DOMAIN x[2] |-> Str(<<x[2][j]>>)]
      [] OTHER -> <<>>

\* Path.exists()
Exists(file) == file # <<"absent">>

-----------------------------------------------------------------------------
(* Module constants.  UF_TO_STATE is modelled on three of its 27 entries. *)

Bahia == <<"B", "a", "h", "i", "a">>
Para == <<"P", "a", "r", "a'">>
SaoPaulo == <<"S", "a~", "o", " ", "P", "a", "u", "l", "o">>

UF_TO_STATE ==
    << <<(<<"B", "A">>), Bahia>>,
       <<(<<"P", "A">>), Para>>,
       <<(<<"S", "P">>), SaoPaulo>> >>

\* STATE_TO_UF = {_norm(v): k for k, v in UF_TO_STATE.items()}
STATE_TO_UF == [j \in DOMAIN UF_TO_STATE |-> <<_norm(UF_TO_STATE[j][2]), UF_TO_STATE[j][1]>>]

TotalKeys == <<"total_pago_2021", "total_paid_2021", "total_paid", "total_pago", "total">>

PreferredYear == 2022

SanLabel == "Sanitation access (%)"
EduLabel == "Education (years)"
UnempLabel == "Unemployment (%)"

-----------------------------------------------------------------------------
(* load_bf_totals_by_state_norm *)

\* the alias loop without `break`: the last alias present wins
RECURSIVE probe_last(_, _)
probe_last(r, ks) ==
    IF ks = <<>> THEN None
    ELSE IF ks[Len(ks)] \in DOMAIN r[2] THEN as_float(Get(r, ks[Len(ks)]))
    ELSE probe_last(r, SubSeq(ks, 1, Len(ks) - 1))

\* for k in [...]: if k in r: total = as_float(r.get(k)); break
RECURSIVE probe_total(_, _)
probe_total(r, ks) ==
    IF ks = <<>> THEN None
    ELSE IF ks[1] \in DOMAIN r[2] THEN as_float(Get(r, ks[1]))
    ELSE probe_total(r, Tail(ks))

\* the body of `for r in rows`
bf_step(o, r) ==
    IF ~IsDict(r) THEN o
    ELSE LET uf0 == IF Truthy(Get(r, "UF")) THEN Get(r, "UF") ELSE Get(r, "uf")
         IN  IF ~IsStr(uf0) \/ Len(Strip(uf0[2])) # 2 THEN o
             ELSE LET uf == Upper(Strip(uf0[2]))
                      total == probe_total(r, TotalKeys)
                  IN  IF total = None THEN o
                      ELSE IF ~DictHas(UF_TO_STATE, uf) THEN o
                      ELSE LET state == DictGet(UF_TO_STATE, uf)
                           IN  DictSet(o, _norm(state),
                                       [State |-> state, UF |-> uf, bf_total |-> total])

RECURSIVE FoldBf(_, _)
FoldBf(o, rs) == IF rs = <<>> THEN o ELSE FoldBf(bf_step(o, rs[1]), Tail(rs))

\* the whole call: <<"ok", mapping>> or <<"raise", exception>>
load_bf_totals_by_state_norm(file) ==
    IF ~Exists(file) THEN <<"ok", <<>>>>
    ELSE IF ~Iterable(file) THEN <<"raise", "TypeError">>
    ELSE <<"ok", FoldBf(<<>>, Iter(file))>>

-----------------------------------------------------------------------------
(* load_sanitation_2022_by_state_norm *)

\* san_step that keeps the first value of a key
san_step_first_wins(o, r) ==
    IF ~IsDict(r) THEN o
    ELSE LET st == Get(r, "State")
         IN  IF ~IsStr(st) THEN o
             ELSE LET val == as_float(Get(r, "Sanitation_Access"))
                  IN  IF val = None \/ DictHas(o, _norm(st[2])) THEN o
                      ELSE DictSet(o, _norm(st[2]), val)

\* the body of `for r in rows`
san_step(o, r) ==
    IF ~IsDict(r) THEN o
    ELSE LET st == Get(r, "State")
         IN  IF ~IsStr(st) THEN o
             ELSE LET val == as_float(Get(r, "Sanitation_Access"))
                  IN  IF val = None THEN o
                      ELSE DictSet(o, _norm(st[2]), val)

RECURSIVE FoldSan(_, _)
FoldSan(o, rs) == IF rs = <<>> THEN o ELSE FoldSan(san_step(o, rs[1]), Tail(rs))

\* load_sanitation_2022_by_state_norm without the exists() check: read_json raises
load_sanitation_unguarded(file) ==
    IF ~Exists(file) THEN <<"raise", "FileNotFoundError">>
    ELSE IF ~IsList(file) THEN <<"ok", <<>>>>
    ELSE <<"ok", FoldSan(<<>>, file[2])>>

load_sanitation_2022_by_state_norm(file) ==
    IF ~Exists(file) THEN <<"ok", <<>>>>
    ELSE IF ~IsList(file) THEN <<"ok", <<>>>>
    ELSE <<"ok", FoldSan(<<>>, file[2])>>

-----------------------------------------------------------------------------
(* load_education_latest_by_state_norm *)

\* int(s) for a string: [whitespace] [sign] digits [whitespace]
ParseInt(s) ==
    LET t == Strip(s)
        signed == t # <<>> /\ t[1] \in {"+", "-"}
        sgn == IF t # <<>> /\ t[1] = "-" THEN -1 ELSE 1
        u == IF signed THEN Tail(t) ELSE t
    IN  IF u = <<>> \/ ~AllDecimal(u) THEN None ELSE Num(sgn * DigitsVal(u), 1)

\* int(x): None stands for the exception (TypeError, ValueError)
IntOf(x) ==
    CASE x[1] = "num"  -> Num(IF x[2] >= 0 THEN x[2] \div x[3] ELSE -((-x[2]) \div x[3]), 1)
      [] x[1] = "bool" -> Num(IF x[2] THEN 1 ELSE 0, 1)
      [] x[1] = "str"  -> ParseInt(x[2])
      [] OTHER -> None

\* edu_step with `y >= prev[0]`
edu_step_last_wins(b, r) ==
    IF ~IsDict(r) THEN b
    ELSE LET st == Get(r, "State")
         IN  IF ~IsStr(st) THEN b
             ELSE LET y == IntOf(Get(r, "Year"))
                      ys == as_float(Get(r, "Years_Schooling"))
                      key == _norm(st[2])
                  IN  IF y = None \/ ys = None THEN b
                      ELSE IF ~DictHas(b, key) \/ y[2] >= DictGet(b, key)[1]
                           THEN DictSet(b, key, <<y[2], ys>>)
                           ELSE b

\* the body of `for r in rows`; best[key] = (year, value)
edu_step(b, r) ==
    IF ~IsDict(r) THEN b
    ELSE LET st == Get(r, "State")
         IN  IF ~IsStr(st) THEN b
             ELSE LET y == IntOf(Get(r, "Year"))
                  IN  IF y = None THEN b
                      ELSE LET ys == as_float(Get(r, "Years_Schooling"))
                           IN  IF ys = None THEN b
                               ELSE LET key == _norm(st[2])
                                    IN  IF ~DictHas(b, key) \/ y[2] > DictGet(b, key)[1]
                                        THEN DictSet(b, key, <<y[2], ys>>)
                                        ELSE b

\* out = {k: v for k, (_, v) in best.items()}
edu_out(b) == [j \in DOMAIN b |-> <<b[j][1], b[j][2][2]>>]

RECURSIVE FoldEdu(_, _)
FoldEdu(b, rs) == IF rs = <<>> THEN b ELSE FoldEdu(edu_step(b, rs[1]), Tail(rs))

load_education_latest_by_state_norm(file) ==
    IF ~Exists(file) THEN <<"ok", <<>>>>
    ELSE IF ~IsList(file) THEN <<"ok", <<>>>>
    ELSE <<"ok", edu_out(FoldEdu(<<>>, file[2]))>>

-----------------------------------------------------------------------------
(* load_unemployment_2022_avg_by_state_norm *)

\* c.isdigit(): the decimal digits and the other characters of Numeric_Type Digit
IsDigitChar(c) == c \in Range(DecimalDigits) \cup {"U+00B2"}

\* s.isdigit()
IsDigit(s) == s # <<>> /\ \A j \in DOMAIN s : IsDigitChar(s[j])

RatAdd(a, b) == Num(a[2] * b[3] + b[2] * a[3], a[3] * b[3])

RECURSIVE RatSum(_)
RatSum(xs) == IF xs = <<>> THEN Num(0, 1) ELSE RatAdd(xs[1], RatSum(Tail(xs)))

\* statistics.mean(xs), xs not empty
mean(xs) == LET t == RatSum(xs) IN Num(t[2], t[3] * Len(xs))

SetMax(S) == CHOOSE x \in S : \A y \in S : y <= x
SetMin(S) == CHOOSE x \in S : \A y \in S : x <= y

\* the record passes the three checks before int(q[:4])
unemp_reaches_int(r) ==
    /\ IsDict(r)
    /\ IsStr(Get(r, "City"))
    /\ LET q == Get(r, "Quarter")
       IN  IsStr(q) /\ Len(q[2]) >= 4 /\ IsDigit(SubSeq(q[2], 1, 4))

\* int(q[:4]) raises ValueError
unemp_raises(r) ==
    unemp_reaches_int(r) /\ ~AllDecimal(SubSeq(Get(r, "Quarter")[2], 1, 4))

\* by_state_year.setdefault(key, {}).setdefault(year, []).append(rate)
append_rate(d, key, year, rate) ==
    LET years_map == IF DictHas(d, key) THEN DictGet(d, key) ELSE <<>>
        rates == IF DictHas(years_map, year) THEN DictGet(years_map, year) ELSE <<>>
    IN  DictSet(d, key, DictSet(years_map, year, Append(rates, rate)))

\* the body of `for r in rows`, for a record on which int(q[:4]) does not raise
unemp_step(d, r) ==
    IF ~unemp_reaches_int(r) THEN d
    ELSE LET year == DigitsVal(SubSeq(Get(r, "Quarter")[2], 1, 4))
             rate == as_float(Get(r, "Unemployment_Rate"))
         IN  IF rate = None THEN d
             ELSE append_rate(d, _norm(Get(r, "City")[2]), year, rate)

\* unemp_pick without the preference for 2022
unemp_pick_latest(years_map) == mean(DictGet(years_map, SetMax(DictKeys(years_map))))

\* the body of `for st_key, years_map in by_state_year.items()`
unemp_pick(years_map) ==
    IF DictHas(years_map, PreferredYear) /\ DictGet(years_map, PreferredYear) # <<>>
    THEN mean(DictGet(years_map, PreferredYear))
    ELSE mean(DictGet(years_map, SetMax(DictKeys(years_map))))

unemp_out(d) == [j \in DOMAIN d |-> <<d[j][1], unemp_pick(d[j][2])>>]

\* <<"ok", by_state_year>> or <<"raise", exception>>
RECURSIVE FoldUnemp(_, _)
FoldUnemp(d, rs) ==
    IF rs = <<>> THEN <<"ok", d>>
    ELSE IF unemp_raises(rs[1]) THEN <<"raise", "ValueError">>
    ELSE FoldUnemp(unemp_step(d, rs[1]), Tail(rs))

load_unemployment_2022_avg_by_state_norm(file) ==
    IF ~Exists(file) THEN <<"ok", <<>>>>
    ELSE IF ~IsList(file) THEN <<"ok", <<>>>>
    ELSE LET res == FoldUnemp(<<>>, file[2])
         IN  IF res[1] = "raise" THEN res ELSE <<"ok", unemp_out(res[2])>>

-----------------------------------------------------------------------------
(* build_long_rows: the join *)

Dims == <<"Sanitation", "Education", "Unemployment">>

Label(dim) ==
    CASE dim = "Sanitation" -> SanLabel
      [] dim = "Education" -> EduLabel
      [] dim = "Unemployment" -> UnempLabel

ZeroCounts == [d \in Range(Dims) |-> 0]

\* emit without the `if v is not None` test
emit_always(acc, entry, dim, metric) ==
    [out |-> Append(acc.out, [UF |-> entry[2].UF, State |-> entry[2].State,
                              bf_total |-> entry[2].bf_total,
                              dimension |-> Label(dim),
                              value |-> IF DictHas(metric, entry[1])
                                        THEN DictGet(metric, entry[1]) ELSE Num(0, 1)]),
     added |-> [acc.added EXCEPT ![dim] = @ + 1],
     missing |-> acc.missing]

\* one `v = metric.get(st_key); if v is not None: ... else: ...` block;
\* acc = [out, added, missing]
emit(acc, entry, dim, metric) ==
    IF DictHas(metric, entry[1])
    THEN [out |-> Append(acc.out, [UF |-> entry[2].UF, State |-> entry[2].State,
                                   bf_total |-> entry[2].bf_total,
                                   dimension |-> Label(dim),
                                   value |-> DictGet(metric, entry[1])]),
          added |-> [acc.added EXCEPT ![dim] = @ + 1],
          missing |-> acc.missing]
    ELSE [out |-> acc.out,
          added |-> acc.added,
          missing |-> [acc.missing EXCEPT ![dim] = @ + 1]]

\* the body of `for st_key, bf_row in bf.items()`; entry = <<st_key, bf_row>>
join_step(acc, entry, san, edu, unemp) ==
    emit(emit(emit(acc, entry, "Sanitation", san), entry, "Education", edu),
         entry, "Unemployment", unemp)

RECURSIVE FoldJoin(_, _, _, _, _)
FoldJoin(acc, entries, san, edu, unemp) ==
    IF entries = <<>> THEN acc
    ELSE FoldJoin(join_step(acc, entries[1], san, edu, unemp), Tail(entries), san, edu, unemp)

\* lines 259-310 for given mappings
join_rows(b, san, edu, unemp) ==
    FoldJoin([out |-> <<>>, added |-> ZeroCounts, missing |-> ZeroCounts], b, san, edu, unemp)

-----------------------------------------------------------------------------
(* Inputs *)

MaxRows == 3        \* longest source list given to a loader called on its own
MaxSrcLen == 2      \* longest source list given to build_long_rows
MaxEdits == 3       \* edits between a display name and a variant spelling of it

Seqs(S, n) == UNION {[1..k -> S] : k \in 0..n}

BA == Str(<<"B", "A">>)
BAHIA_padded == <<" ", "B", "A", "H", "I", "A", " ">>
para_plain == <<"p", "a", "r", "a">>
abc == Str(<<"a", "b", "c">>)

BfRecords ==
    { Dict([UF |-> BA, total_pago_2021 |-> Num(100, 1)]),
      Dict([uf |-> Str(<<"b", "a">>), total |-> Str(<<"8", ",", "4">>)]),
      Dict([UF |-> BA, total_paid |-> Num(7, 1), total |-> Num(9, 1)]),
      Dict([UF |-> BA, total_pago_2021 |-> abc, total_paid |-> Num(5, 1)]),
      Dict([UF |-> BA, total_paid_2021 |-> None, total |-> Num(9, 1)]),
      Dict([UF |-> Str(<<"P", "A">>), total |-> Num(3, 1)]),
      Dict([UF |-> Str(<<>>), uf |-> Str(<<" ", "p", "a", " ">>), total_pago |-> Num(2, 1)]),
      Dict([UF |-> Str(<<"X", "X">>), total |-> Num(1, 1)]),
      Dict([UF |-> Str(<<"B">>), total |-> Num(1, 1)]),
      Dict([UF |-> Num(5, 1), total |-> Num(1, 1)]),
      Dict([UF |-> BA, total |-> abc]),
      Dict([UF |-> BA, total_paid |-> Num(7, 1), total |-> Str(<<"%">>)]),
      Dict([UF |-> BA]),
      Num(7, 1) }

SanRecords ==
    { Dict([State |-> Str(Bahia), Sanitation_Access |-> Num(185, 2)]),
      Dict([State |-> Str(BAHIA_padded), Sanitation_Access |-> Str(<<"8", "3", "%">>)]),
      Dict([State |-> Str(Para), Sanitation_Access |-> Str(<<"8", ",", "4">>)]),
      Dict([State |-> Str(para_plain), Sanitation_Access |-> Num(50, 1)]),
      Dict([State |-> Str(Bahia), Sanitation_Access |-> abc]),
      Dict([State |-> Str(Bahia), Sanitation_Access |-> Str(<<" ">>)]),
      Dict([State |-> Str(Bahia), Sanitation_Access |-> <<"list", <<>>>>]),
      Dict([State |-> Str(Bahia)]),
      Dict([State |-> Num(5, 1), Sanitation_Access |-> Num(1, 1)]),
      None }

Y(a, b, c, d) == <<a, b, c, d>>

EduRecords ==
    { Dict([State |-> Str(Bahia), Year |-> Num(2019, 1), Years_Schooling |-> Num(71, 10)]),
      Dict([State |-> Str(Bahia), Year |-> Num(2021, 1), Years_Schooling |-> Num(79, 10)]),
      Dict([State |-> Str(BAHIA_padded), Year |-> Str(Y("2", "0", "2", "1")),
            Years_Schooling |-> Str(<<"8", ",", "5">>)]),
      Dict([State |-> Str(Bahia), Year |-> Num(40439, 20), Years_Schooling |-> Num(6, 1)]),
      Dict([State |-> Str(Para), Year |-> Num(2020, 1), Years_Schooling |-> Num(5, 1)]),
      Dict([State |-> Str(Bahia), Year |-> abc, Years_Schooling |-> Num(9, 1)]),
      Dict([State |-> Str(Bahia), Years_Schooling |-> Num(9, 1)]),
      Dict([State |-> Str(Bahia), Year |-> Num(2022, 1), Years_Schooling |-> abc]),
      Dict([State |-> Str(Bahia), Year |-> Num(2022, 1)]),
      Dict([Year |-> Num(2022, 1), Years_Schooling |-> Num(9, 1)]),
      Str(<<"x">>) }

Quarter(y, n) == Str(y \o <<"Q", n>>)

UnempRecords ==
    { Dict([City |-> Str(Bahia), Quarter |-> Quarter(Y("2", "0", "2", "2"), "1"),
            Unemployment_Rate |-> Num(9, 1)]),
      Dict([City |-> Str(BAHIA_padded), Quarter |-> Quarter(Y("2", "0", "2", "2"), "3"),
            Unemployment_Rate |-> Str(<<"1", "1", ",", "0">>)]),
      Dict([City |-> Str(Bahia), Quarter |-> Quarter(Y("2", "0", "2", "1"), "2"),
            Unemployment_Rate |-> Num(6, 1)]),
      Dict([City |-> Str(Bahia), Quarter |-> Quarter(Y("2", "0", "2", "1"), "4"),
            Unemployment_Rate |-> Num(7, 1)]),
      Dict([City |-> Str(Bahia), Quarter |-> Quarter(Y("2", "0", "2", "3"), "1"),
            Unemployment_Rate |-> Num(4, 1)]),
      Dict([City |-> Str(Para), Quarter |-> Quarter(Y("2", "0", "2", "0"), "1"),
            Unemployment_Rate |-> Num(5, 1)]),
      Dict([City |-> Str(Bahia), Quarter |-> Str(<<"Q", "1">>), Unemployment_Rate |-> Num(1, 1)]),
      Dict([City |-> Str(Bahia), Quarter |-> Str(<<"Q", "2", "0", "2", "2">>),
            Unemployment_Rate |-> Num(1, 1)]),
      Dict([City |-> Str(Bahia), Quarter |-> Quarter(Y("2", "0", "2", "2"), "2"),
            Unemployment_Rate |-> abc]),
      Dict([City |-> Str(Bahia), Quarter |-> Quarter(Y("2", "0", "2", "2"), "2")]),
      Dict([City |-> Str(Bahia), Quarter |-> Quarter(Y("U+00B2", "0", "2", "2"), "1"),
            Unemployment_Rate |-> Num(8, 1)]),
      Dict([City |-> Num(5, 1), Quarter |-> Quarter(Y("2", "0", "2", "2"), "1"),
            Unemployment_Rate |-> Num(1, 1)]),
      Num(7, 1) }

\* what a file can hold besides a list: nothing (absent), null, a number, an object
NonLists == {<<"absent">>, None, Num(5, 1), Dict([UF |-> BA, total |-> Num(1, 1)])}

Sources(records, n) == NonLists \cup {<<"list", rs>> : rs \in Seqs(records, n)}

Loaders == {"load_bf_totals_by_state_norm", "load_sanitation_2022_by_state_norm",
            "load_education_latest_by_state_norm",
            "load_unemployment_2022_avg_by_state_norm"}

Absent == <<"absent">>

-----------------------------------------------------------------------------
(* A loader called on its own, one loop iteration per step *)

LoaderLocals == <<rows, i, out, best, by_state_year>>
JoinLocals == <<bf, sanitation, education, unemployment, long_rows, added, missing>>
Files == <<BF_FILE, SAN_FILE, EDU_FILE, UNEMP_FILE>>
NormVars == <<name, variant>>

InitLoaders ==
    /\ fn \in Loaders
    /\ pc = "start"
    /\ BF_FILE \in (IF fn = "load_bf_totals_by_state_norm"
                    THEN Sources(BfRecords, MaxRows) ELSE {Absent})
    /\ SAN_FILE \in (IF fn = "load_sanitation_2022_by_state_norm"
                     THEN Sources(SanRecords, MaxRows) ELSE {Absent})
    /\ EDU_FILE \in (IF fn = "load_education_latest_by_state_norm"
                     THEN Sources(EduRecords, MaxRows) ELSE {Absent})
    /\ UNEMP_FILE \in (IF fn = "load_unemployment_2022_avg_by_state_norm"
                       THEN Sources(UnempRecords, MaxRows) ELSE {Absent})
    /\ rows = None /\ i = 0 /\ out = <<>> /\ best = <<>> /\ by_state_year = <<>>
    /\ bf = <<>> /\ sanitation = <<>> /\ education = <<>> /\ unemployment = <<>>
    /\ long_rows = <<>> /\ added = ZeroCounts /\ missing = ZeroCounts
    /\ name = <<>> /\ variant = <<>>

\* lines 102-104
BfMissing ==
    /\ fn = "load_bf_totals_by_state_norm" /\ pc = "start"
    /\ ~Exists(BF_FILE)
    /\ out' = <<>> /\ pc' = "done"
    /\ UNCHANGED <<fn, Files, rows, i, best, by_state_year, JoinLocals, NormVars>>

\* lines 106-109: read_json, out = {}, iter(rows)
BfRead ==
    /\ fn = "load_bf_totals_by_state_norm" /\ pc = "start"
    /\ Exists(BF_FILE)
    /\ rows' = BF_FILE /\ out' = <<>> /\ i' = 0
    /\ pc' = IF Iterable(BF_FILE) THEN "loop" ELSE "raised"
    /\ UNCHANGED <<fn, Files, best, by_state_year, JoinLocals, NormVars>>

\* lines 109-131, one iteration
BfRecord ==
    /\ fn = "load_bf_totals_by_state_norm" /\ pc = "loop"
    /\ i < Len(Iter(rows))
    /\ out' = bf_step(out, Iter(rows)[i + 1])
    /\ i' = i + 1
    /\ UNCHANGED <<fn, pc, Files, rows, best, by_state_year, JoinLocals, NormVars>>

\* lines 133-136
BfReturn ==
    /\ fn = "load_bf_totals_by_state_norm" /\ pc = "loop"
    /\ i = Len(Iter(rows))
    /\ pc' = "done"
    /\ UNCHANGED <<fn, Files, LoaderLocals, JoinLocals, NormVars>>

\* lines 139-141
SanMissing ==
    /\ fn = "load_sanitation_2022_by_state_norm" /\ pc = "start"
    /\ ~Exists(SAN_FILE)
    /\ out' = <<>> /\ pc' = "done"
    /\ UNCHANGED <<fn, Files, rows, i, best, by_state_year, JoinLocals, NormVars>>

\* lines 143-148
SanRead ==
    /\ fn = "load_sanitation_2022_by_state_norm" /\ pc = "start"
    /\ Exists(SAN_FILE)
    /\ rows' = SAN_FILE /\ out' = <<>> /\ i' = 0
    /\ pc' = IF IsList(SAN_FILE) THEN "loop" ELSE "done"
    /\ UNCHANGED <<fn, Files, best, by_state_year, JoinLocals, NormVars>>

\* lines 149-158, one iteration
SanRecord ==
    /\ fn = "load_sanitation_2022_by_state_norm" /\ pc = "loop"
    /\ i < Len(rows[2])
    /\ out' = san_step(out, rows[2][i + 1])
    /\ i' = i + 1
    /\ UNCHANGED <<fn, pc, Files, rows, best, by_state_year, JoinLocals, NormVars>>

\* lines 160-161
SanReturn ==
    /\ fn = "load_sanitation_2022_by_state_norm" /\ pc = "loop"
    /\ i = Len(rows[2])
    /\ pc' = "done"
    /\ UNCHANGED <<fn, Files, LoaderLocals, JoinLocals, NormVars>>

\* lines 164-166
EduMissing ==
    /\ fn = "load_education_latest_by_state_norm" /\ pc = "start"
    /\ ~Exists(EDU_FILE)
    /\ out' = <<>> /\ pc' = "done"
    /\ UNCHANGED <<fn, Files, rows, i, best, by_state_year, JoinLocals, NormVars>>

\* lines 168-173
EduRead ==
    /\ fn = "load_education_latest_by_state_norm" /\ pc = "start"
    /\ Exists(EDU_FILE)
    /\ rows' = EDU_FILE /\ best' = <<>> /\ out' = <<>> /\ i' = 0
    /\ pc' = IF IsList(EDU_FILE) THEN "loop" ELSE "done"
    /\ UNCHANGED <<fn, Files, by_state_year, JoinLocals, NormVars>>

\* lines 174-195, one iteration
EduRecord ==
    /\ fn = "load_education_latest_by_state_norm" /\ pc = "loop"
    /\ i < Len(rows[2])
    /\ best' = edu_step(best, rows[2][i + 1])
    /\ i' = i + 1
    /\ UNCHANGED <<fn, pc, Files, rows, out, by_state_year, JoinLocals, NormVars>>

\* lines 197-199
EduReturn ==
    /\ fn = "load_education_latest_by_state_norm" /\ pc = "loop"
    /\ i = Len(rows[2])
    /\ out' = edu_out(best)
    /\ pc' = "done"
    /\ UNCHANGED <<fn, Files, rows, i, best, by_state_year, JoinLocals, NormVars>>

\* lines 202-204
UnempMissing ==
    /\ fn = "load_unemployment_2022_avg_by_state_norm" /\ pc = "start"
    /\ ~Exists(UNEMP_FILE)
    /\ out' = <<>> /\ pc' = "done"
    /\ UNCHANGED <<fn, Files, rows, i, best, by_state_year, JoinLocals, NormVars>>

\* lines 206-212
UnempRead ==
    /\ fn = "load_unemployment_2022_avg_by_state_norm" /\ pc = "start"
    /\ Exists(UNEMP_FILE)
    /\ rows' = UNEMP_FILE /\ by_state_year' = <<>> /\ out' = <<>> /\ i' = 0
    /\ pc' = IF IsList(UNEMP_FILE) THEN "loop" ELSE "done"
    /\ UNCHANGED <<fn, Files, best, JoinLocals, NormVars>>

\* lines 214-232, one iteration; int(q[:4]) may raise
UnempRecord ==
    /\ fn = "load_unemployment_2022_avg_by_state_norm" /\ pc = "loop"
    /\ i < Len(rows[2])
    /\ i' = i + 1
    /\ IF unemp_raises(rows[2][i + 1])
       THEN pc' = "raised" /\ UNCHANGED by_state_year
       ELSE pc' = pc /\ by_state_year' = unemp_step(by_state_year, rows[2][i + 1])
    /\ UNCHANGED <<fn, Files, rows, out, best, JoinLocals, NormVars>>

\* lines 234-243
UnempReturn ==
    /\ fn = "load_unemployment_2022_avg_by_state_norm" /\ pc = "loop"
    /\ i = Len(rows[2])
    /\ out' = unemp_out(by_state_year)
    /\ pc' = "done"
    /\ UNCHANGED <<fn, Files, rows, i, best, by_state_year, JoinLocals, NormVars>>

NextLoaders ==
    \/ BfMissing \/ BfRead \/ BfRecord \/ BfReturn
    \/ SanMissing \/ SanRead \/ SanRecord \/ SanReturn
    \/ EduMissing \/ EduRead \/ EduRecord \/ EduReturn
    \/ UnempMissing \/ UnempRead \/ UnempRecord \/ UnempReturn

SpecLoaders == InitLoaders /\ [][NextLoaders]_vars

\* the stepwise loaders agree with the whole-call operators
StepwiseAgrees ==
    LET res == CASE fn = "load_bf_totals_by_state_norm" -> load_bf_totals_by_state_norm(BF_FILE)
                 [] fn = "load_sanitation_2022_by_state_norm" -> load_sanitation_2022_by_state_norm(SAN_FILE)
                 [] fn = "load_education_latest_by_state_norm" -> load_education_latest_by_state_norm(EDU_FILE)
                 [] fn = "load_unemployment_2022_avg_by_state_norm" -> load_unemployment_2022_avg_by_state_norm(UNEMP_FILE)
    IN  /\ pc = "done" => res = <<"ok", out>>
        /\ pc = "raised" => res[1] = "raise"

-----------------------------------------------------------------------------
(* build_long_rows, one statement per step; a loader call is one step *)

JoinBfRecords ==
    { Dict([UF |-> BA, total_pago_2021 |-> Num(100, 1)]),
      Dict([uf |-> Str(<<"p", "a">>), total |-> Num(3, 1)]),
      Dict([UF |-> Str(<<"X", "X">>), total |-> Num(1, 1)]) }

JoinSanRecords ==
    { Dict([State |-> Str(Bahia), Sanitation_Access |-> Num(185, 2)]),
      Dict([State |-> Str(para_plain), Sanitation_Access |-> Num(50, 1)]) }

JoinEduRecords ==
    { Dict([State |-> Str(Para), Year |-> Num(2021, 1), Years_Schooling |-> Num(79, 10)]) }

JoinUnempRecords ==
    { Dict([City |-> Str(BAHIA_padded), Quarter |-> Quarter(Y("2", "0", "2", "2"), "1"),
            Unemployment_Rate |-> Num(8, 1)]),
      Dict([City |-> Str(Para), Quarter |-> Quarter(Y("U+00B2", "0", "2", "2"), "1"),
            Unemployment_Rate |-> Num(8, 1)]) }

JoinSources(records, other) ==
    {Absent, other} \cup {<<"list", rs>> : rs \in Seqs(records, MaxSrcLen)}

JoinBfSources == JoinSources(JoinBfRecords, None)
JoinSanSources == JoinSources(JoinSanRecords, Dict([State |-> Str(Bahia)]))
JoinEduSources == JoinSources(JoinEduRecords, Num(5, 1))
JoinUnempSources == JoinSources(JoinUnempRecords, Str(<<"x">>))

Init ==
    /\ fn = "build_long_rows"
    /\ pc = "load_bf"
    /\ BF_FILE \in JoinBfSources
    /\ SAN_FILE \in JoinSanSources
    /\ EDU_FILE \in JoinEduSources
    /\ UNEMP_FILE \in JoinUnempSources
    /\ rows = None /\ i = 0 /\ out = <<>> /\ best = <<>> /\ by_state_year = <<>>
    /\ bf = <<>> /\ sanitation = <<>> /\ education = <<>> /\ unemployment = <<>>
    /\ long_rows = <<>> /\ added = ZeroCounts /\ missing = ZeroCounts
    /\ name = <<>> /\ variant = <<>>

\* line 250
CallLoadBf ==
    /\ fn = "build_long_rows" /\ pc = "load_bf"
    /\ LET res == load_bf_totals_by_state_norm(BF_FILE)
       IN  IF res[1] = "raise"
           THEN pc' = "raised" /\ UNCHANGED bf
           ELSE pc' = "check_bf" /\ bf' = res[2]
    /\ UNCHANGED <<fn, Files, LoaderLocals, sanitation, education, unemployment,
                   long_rows, added, missing, NormVars>>

\* ReturnEmpty without `if not bf: return []`: falls through to line 255
ReturnEmpty_fallthrough ==
    /\ fn = "build_long_rows" /\ pc = "check_bf"
    /\ bf = <<>>
    /\ sanitation' = load_sanitation_2022_by_state_norm(SAN_FILE)[2]
    /\ pc' = "load_edu"
    /\ UNCHANGED <<fn, Files, LoaderLocals, bf, education, unemployment,
                   long_rows, added, missing, NormVars>>

\* lines 251-253
ReturnEmpty ==
    /\ fn = "build_long_rows" /\ pc = "check_bf"
    /\ bf = <<>>
    /\ long_rows' = <<>>
    /\ pc' = "done"
    /\ UNCHANGED <<fn, Files, LoaderLocals, bf, sanitation, education, unemployment,
                   added, missing, NormVars>>

\* line 255
CallLoadSan ==
    /\ fn = "build_long_rows" /\ pc = "check_bf"
    /\ bf # <<>>
    /\ LET res == load_sanitation_2022_by_state_norm(SAN_FILE)
       IN  IF res[1] = "raise"
           THEN pc' = "raised" /\ UNCHANGED sanitation
           ELSE pc' = "load_edu" /\ sanitation' = res[2]
    /\ UNCHANGED <<fn, Files, LoaderLocals, bf, education, unemployment,
                   long_rows, added, missing, NormVars>>

\* line 256
CallLoadEdu ==
    /\ fn = "build_long_rows" /\ pc = "load_edu"
    /\ LET res == load_education_latest_by_state_norm(EDU_FILE)
       IN  IF res[1] = "raise"
           THEN pc' = "raised" /\ UNCHANGED education
           ELSE pc' = "load_unemp" /\ education' = res[2]
    /\ UNCHANGED <<fn, Files, LoaderLocals, bf, sanitation, unemployment,
                   long_rows, added, missing, NormVars>>

\* lines 257-261
CallLoadUnemp ==
    /\ fn = "build_long_rows" /\ pc = "load_unemp"
    /\ LET res == load_unemployment_2022_avg_by_state_norm(UNEMP_FILE)
       IN  IF res[1] = "raise"
           THEN pc' = "raised" /\ UNCHANGED unemployment
           ELSE pc' = "join" /\ unemployment' = res[2]
    /\ long_rows' = <<>> /\ added' = ZeroCounts /\ missing' = ZeroCounts /\ i' = 0
    /\ UNCHANGED <<fn, Files, rows, out, best, by_state_year, bf, sanitation,
                   education, NormVars>>

\* lines 263-305, one iteration
JoinEntry ==
    /\ fn = "build_long_rows" /\ pc = "join"
    /\ i < Len(bf)
    /\ LET acc == join_step([out |-> long_rows, added |-> added, missing |-> missing],
                            bf[i + 1], sanitation, education, unemployment)
       IN  /\ long_rows' = acc.out
           /\ added' = acc.added
           /\ missing' = acc.missing
    /\ i' = i + 1
    /\ UNCHANGED <<fn, pc, Files, rows, out, best, by_state_year, bf, sanitation,
                   education, unemployment, NormVars>>

\* lines 307-310
ReturnRows ==
    /\ fn = "build_long_rows" /\ pc = "join"
    /\ i = Len(bf)
    /\ pc' = "done"
    /\ UNCHANGED <<fn, Files, LoaderLocals, JoinLocals, NormVars>>

Next ==
    \/ CallLoadBf \/ ReturnEmpty \/ CallLoadSan \/ CallLoadEdu \/ CallLoadUnemp
    \/ JoinEntry \/ ReturnRows

Spec == Init /\ [][Next]_vars

-----------------------------------------------------------------------------
(* Variant spellings of a display name: the strings that differ from it    *)
(* only by letter case, diacritics, hyphen versus space, and leading,      *)
(* trailing or repeated whitespace.  i counts the edits.                   *)

Letters == Range(LowerLetters) \cup Range(UpperLetters)

OtherCase(c) == IF c \in Range(LowerLetters) THEN UpperChar(c) ELSE LowerChar(c)

\* the precomposed accented forms of a letter, and the letter of an accented form
Accented(c) ==
    CASE c = "a" -> {"a~", "a'"}
      [] c = "A" -> {"A~", "A'"}
      [] OTHER -> {}

Unaccented(c) ==
    CASE c \in {"a~", "a'"} -> "a"
      [] c \in {"A~", "A'"} -> "A"
      [] OTHER -> c

InsertAt(s, p, c) == SubSeq(s, 1, p) \o <<c>> \o SubSeq(s, p + 1, Len(s))
RemoveAt(s, p) == SubSeq(s, 1, p - 1) \o SubSeq(s, p + 1, Len(s))

InitNorm ==
    /\ fn = "_norm"
    /\ pc = "idle"
    /\ name \in {UF_TO_STATE[j][2] : j \in DOMAIN UF_TO_STATE}
    /\ variant = name
    /\ i = 0
    /\ BF_FILE = Absent /\ SAN_FILE = Absent /\ EDU_FILE = Absent /\ UNEMP_FILE = Absent
    /\ rows = None /\ out = <<>> /\ best = <<>> /\ by_state_year = <<>>
    /\ bf = <<>> /\ sanitation = <<>> /\ education = <<>> /\ unemployment = <<>>
    /\ long_rows = <<>> /\ added = ZeroCounts /\ missing = ZeroCounts

Edit(v) ==
    /\ i < MaxEdits
    /\ i' = i + 1
    /\ variant' = v
    /\ UNCHANGED <<fn, pc, Files, rows, out, best, by_state_year, JoinLocals, name>>

ToggleCase ==
    \E j \in DOMAIN variant :
        /\ variant[j] \in Letters
        /\ Edit([variant EXCEPT ![j] = OtherCase(@)])

UpperAll == Edit(Upper(variant))

LowerAll == Edit(Lower(variant))

AddAccent ==
    \E j \in DOMAIN variant : \E c \in Accented(variant[j]) :
        Edit([variant EXCEPT ![j] = c])

RemoveAccent ==
    \E j \in DOMAIN variant :
        /\ Unaccented(variant[j]) # variant[j]
        /\ Edit([variant EXCEPT ![j] = Unaccented(@)])

AddMark ==
    \E j \in DOMAIN variant : \E m \in {"U+0303", "U+0301"} :
        /\ variant[j] \in Letters
        /\ Edit(InsertAt(variant, j, m))

RemoveMark ==
    \E j \in DOMAIN variant :
        /\ Combining(variant[j])
        /\ Edit(RemoveAt(variant, j))

HyphenSpace ==
    \E j \in DOMAIN variant :
        /\ variant[j] \in {"-", " "}
        /\ Edit([variant EXCEPT ![j] = IF @ = "-" THEN " " ELSE "-"])

\* a space before the string, after it, or beside a space
AddSpace ==
    \E p \in 0..Len(variant) :
        /\ \/ p = 0
           \/ p = Len(variant)
           \/ p >= 1 /\ variant[p] \in Whitespace
           \/ p < Len(variant) /\ variant[p + 1] \in Whitespace
        /\ Edit(InsertAt(variant, p, " "))

RemoveSpace ==
    \E j \in DOMAIN variant :
        /\ variant[j] \in Whitespace
        /\ \/ j = 1
           \/ j = Len(variant)
           \/ j > 1 /\ variant[j - 1] \in Whitespace
           \/ j < Len(variant) /\ variant[j + 1] \in Whitespace
        /\ Edit(RemoveAt(variant, j))

NextNorm ==
    \/ ToggleCase \/ UpperAll \/ LowerAll \/ AddAccent \/ RemoveAccent
    \/ AddMark \/ RemoveMark \/ HyphenSpace \/ AddSpace \/ RemoveSpace

SpecNorm == InitNorm /\ [][NextNorm]_vars

\* the stepwise join agrees with the whole-join operator
PipeAgrees == pc = "done" /\ bf # <<>> =>
    long_rows = join_rows(bf, sanitation, education, unemployment).out

-----------------------------------------------------------------------------
(* Claims about build_long_rows (specification Spec) *)

InJoin == fn = "build_long_rows" /\ pc \in {"join", "done"} /\ bf # <<>>

MetricOf(dim) ==
    CASE dim = "Sanitation" -> sanitation
      [] dim = "Education" -> education
      [] dim = "Unemployment" -> unemployment

\* positions of long_rows holding the record of baseline entry b and dimension dim
RecordsOf(b, dim) ==
    {k \in DOMAIN long_rows :
        long_rows[k].UF = bf[b][2].UF /\ long_rows[k].dimension = Label(dim)}

HasMetric(b, dim) == DictHas(MetricOf(dim), bf[b][1])

\* C1: for every baseline entry the join has processed and each dimension,
\* exactly one record (carrying the entry's UF, State, bf_total, the dimension's
\* label and the looked-up value) is emitted if the dimension's map has the
\* entry's key, and otherwise none is emitted and the dimension's missing counter
\* counts it; the output holds no other record, and added + missing is the
\* number of entries processed (all of them at the end).
C1_JoinExact ==
    InJoin =>
        /\ \A b \in 1..i : \A dim \in Range(Dims) :
              IF HasMetric(b, dim)
              THEN /\ Cardinality(RecordsOf(b, dim)) = 1
                   /\ \A k \in RecordsOf(b, dim) :
                         long_rows[k] = [UF |-> bf[b][2].UF, State |-> bf[b][2].State,
                                         bf_total |-> bf[b][2].bf_total,
                                         dimension |-> Label(dim),
                                         value |-> DictGet(MetricOf(dim), bf[b][1])]
              ELSE RecordsOf(b, dim) = {}
        /\ Len(long_rows) =
              Cardinality({bd \in (1..i) \X Range(Dims) : HasMetric(bd[1], bd[2])})
        /\ \A dim \in Range(Dims) :
              /\ added[dim] = Cardinality({b \in 1..i : HasMetric(b, dim)})
              /\ missing[dim] = Cardinality({b \in 1..i : ~HasMetric(b, dim)})
              /\ added[dim] + missing[dim] = i
        /\ pc = "done" => i = Len(bf)

\* baseline {BA: 100}, sanitation {bahia: 92.5}, education without bahia,
\* unemployment {bahia: 8}: exactly the two records of Bahia
C1_Witness ==
    /\ fn = "build_long_rows" /\ pc = "done"
    /\ Len(bf) = 1
    /\ long_rows =
          << [UF |-> <<"B", "A">>, State |-> Bahia, bf_total |-> Num(100, 1),
              dimension |-> SanLabel, value |-> Num(185, 2)],
             [UF |-> <<"B", "A">>, State |-> Bahia, bf_total |-> Num(100, 1),
              dimension |-> UnempLabel, value |-> Num(8, 1)] >>
    /\ missing["Education"] = 1

BfLoaded == load_bf_totals_by_state_norm(BF_FILE)

\* C2: when the baseline loader yields the empty mapping (file absent, or no
\* record passing its checks), build_long_rows does not raise and returns the
\* empty sequence without looking at the three metric sources.
C2_EmptyBaseline ==
    (fn = "build_long_rows" /\ BfLoaded = <<"ok", <<>>>>) =>
        /\ pc \in {"load_bf", "check_bf", "done"}
        /\ pc = "done" => long_rows = <<>>

\* the baseline file holds a record, none passes, and the unemployment file
\* holds a record on which its loader would raise
C2_Witness ==
    /\ fn = "build_long_rows" /\ pc = "done"
    /\ IsList(BF_FILE) /\ BF_FILE[2] # <<>> /\ bf = <<>>
    /\ IsList(SAN_FILE) /\ SAN_FILE[2] # <<>>
    /\ load_unemployment_2022_avg_by_state_norm(UNEMP_FILE)[1] = "raise"
    /\ long_rows = <<>>

FileOf(dim) ==
    CASE dim = "Sanitation" -> SAN_FILE
      [] dim = "Education" -> EDU_FILE
      [] dim = "Unemployment" -> UNEMP_FILE

LoadOf(dim, file) ==
    CASE dim = "Sanitation" -> load_sanitation_2022_by_state_norm(file)
      [] dim = "Education" -> load_education_latest_by_state_norm(file)
      [] dim = "Unemployment" -> load_unemployment_2022_avg_by_state_norm(file)

SourcesOf(dim) ==
    CASE dim = "Sanitation" -> JoinSanSources
      [] dim = "Education" -> JoinEduSources
      [] dim = "Unemployment" -> JoinUnempSources

\* pc values at which the loader of dim has returned
AfterLoad(dim) ==
    CASE dim = "Sanitation" -> {"load_edu", "load_unemp", "join", "done"}
      [] dim = "Education" -> {"load_unemp", "join", "done"}
      [] dim = "Unemployment" -> {"join", "done"}

RECURSIVE SelectRows(_, _)
SelectRows(rs, labels) ==
    IF rs = <<>> THEN <<>>
    ELSE (IF rs[1].dimension \in labels THEN <<rs[1]>> ELSE <<>>) \o SelectRows(Tail(rs), labels)

\* the output of the join with the map of dim replaced by m
JoinWith(dim, m) ==
    join_rows(bf,
              IF dim = "Sanitation" THEN m ELSE sanitation,
              IF dim = "Education" THEN m ELSE education,
              IF dim = "Unemployment" THEN m ELSE unemployment).out

\* C4: when the source of a dimension is absent or holds no list, its loader
\* returns the empty map without raising, the returned output holds no record
\* of that dimension, and its records of the other two dimensions are those the
\* join yields for any map that loader can return for a source that is present.
C4_MissingMetric ==
    \A dim \in Range(Dims) :
        (fn = "build_long_rows" /\ (~Exists(FileOf(dim)) \/ ~IsList(FileOf(dim)))) =>
            /\ LoadOf(dim, FileOf(dim)) = <<"ok", <<>>>>
            /\ (pc \in AfterLoad(dim) /\ bf # <<>>) => MetricOf(dim) = <<>>
            /\ (pc = "done" /\ bf # <<>>) =>
                  /\ SelectRows(long_rows, {Label(dim)}) = <<>>
                  /\ \A src \in SourcesOf(dim) :
                        LET res == LoadOf(dim, src)
                            others == {Label(e) : e \in Range(Dims) \ {dim}}
                        IN  res[1] = "ok" =>
                               SelectRows(JoinWith(dim, res[2]), others)
                                  = SelectRows(long_rows, others)

\* sanitation file absent, education file not a list, and unemployment joined
C4_Witness ==
    /\ fn = "build_long_rows" /\ pc = "done"
    /\ ~Exists(SAN_FILE)
    /\ Exists(EDU_FILE) /\ ~IsList(EDU_FILE)
    /\ Len(long_rows) = 1 /\ long_rows[1].dimension = UnempLabel

-----------------------------------------------------------------------------
(* Claims about the loaders (specification SpecLoaders) *)

IsBf == fn = "load_bf_totals_by_state_norm"
IsSan == fn = "load_sanitation_2022_by_state_norm"
IsEdu == fn = "load_education_latest_by_state_norm"
IsUnemp == fn = "load_unemployment_2022_avg_by_state_norm"

\* the file of the loader that runs, and the result of the whole call on a file
OwnFile ==
    CASE IsBf -> BF_FILE
      [] IsSan -> SAN_FILE
      [] IsEdu -> EDU_FILE
      [] IsUnemp -> UNEMP_FILE

RunLoader(file) ==
    CASE IsBf -> load_bf_totals_by_state_norm(file)
      [] IsSan -> load_sanitation_2022_by_state_norm(file)
      [] IsEdu -> load_education_latest_by_state_norm(file)
      [] IsUnemp -> load_unemployment_2022_avg_by_state_norm(file)

\* C3: no loader raises, whatever JSON value its file holds.
C3_NoException == fn \in Loaders => pc # "raised"

\* a record of the unemployment file that passes the three checks of the claim
UnValid(r) ==
    /\ IsDict(r)
    /\ IsStr(Get(r, "City"))
    /\ IsStr(Get(r, "Quarter"))
    /\ Len(Get(r, "Quarter")[2]) >= 4
    /\ AllDecimal(SubSeq(Get(r, "Quarter")[2], 1, 4))
    /\ as_float(Get(r, "Unemployment_Rate")) # None

UnKey(r) == _norm(Get(r, "City")[2])
UnYear(r) == DigitsVal(SubSeq(Get(r, "Quarter")[2], 1, 4))
UnRate(r) == as_float(Get(r, "Unemployment_Rate"))

RECURSIVE SumRates(_, _)
SumRates(rs, J) ==
    IF J = {} THEN Num(0, 1)
    ELSE LET j == CHOOSE j \in J : TRUE IN RatAdd(UnRate(rs[j]), SumRates(rs, J \ {j}))

\* the arithmetic mean of the rates of the records at the positions J
MeanRate(rs, J) == LET t == SumRates(rs, J) IN Num(t[2], t[3] * Cardinality(J))

\* C5: when the unemployment loader returns, the keys of its result are the
\* keys with at least one valid record, and the value of a key is the mean of
\* its valid 2022 rates if it has one, and otherwise the mean of the valid rates
\* of its largest year.
C5_UnemploymentMean ==
    (IsUnemp /\ pc = "done" /\ IsList(rows)) =>
        LET rs == rows[2]
            V == {j \in DOMAIN rs : UnValid(rs[j])}
            keys == {UnKey(rs[j]) : j \in V}
        IN  /\ DictKeys(out) = keys
            /\ \A k \in keys :
                  LET Vk == {j \in V : UnKey(rs[j]) = k}
                      P == {j \in Vk : UnYear(rs[j]) = 2022}
                      top == SetMax({UnYear(rs[j]) : j \in Vk})
                      L == {j \in Vk : UnYear(rs[j]) = top}
                  IN  DictGet(out, k) = IF P # {} THEN MeanRate(rs, P) ELSE MeanRate(rs, L)

\* two 2022 rates (9 and 11) and a 2023 rate (4) of one state: the result is 10
C5_Witness ==
    /\ IsUnemp /\ pc = "done" /\ IsList(rows)
    /\ Len(rows[2]) = 3
    /\ \A j \in 1..3 : UnValid(rows[2][j])
    /\ {UnYear(rows[2][j]) : j \in 1..3} = {2022, 2023}
    /\ out = << <<(<<"b", "a", "h", "i", "a">>), Num(10, 1)>> >>

EdValid(r) ==
    /\ IsDict(r)
    /\ IsStr(Get(r, "State"))
    /\ IntOf(Get(r, "Year")) # None
    /\ as_float(Get(r, "Years_Schooling")) # None

EdKey(r) == _norm(Get(r, "State")[2])
EdYear(r) == IntOf(Get(r, "Year"))[2]
EdValue(r) == as_float(Get(r, "Years_Schooling"))

\* C6: after any number of records, the education loader holds for every key
\* the schooling value of the first record, in input order, among the key's
\* valid records that carry the largest year; it returns exactly these values.
C6_EducationFirstOfLatest ==
    (IsEdu /\ pc \in {"loop", "done"} /\ IsList(rows)) =>
        LET rs == rows[2]
            V == {j \in 1..i : EdValid(rs[j])}
            keys == {EdKey(rs[j]) : j \in V}
            Winner(k) ==
                LET Vk == {j \in V : EdKey(rs[j]) = k}
                    top == SetMax({EdYear(rs[j]) : j \in Vk})
                IN  rs[SetMin({j \in Vk : EdYear(rs[j]) = top})]
        IN  /\ DictKeys(best) = keys
            /\ \A k \in keys : DictGet(best, k) = <<EdYear(Winner(k)), EdValue(Winner(k))>>
            /\ pc = "done" =>
                  /\ i = Len(rs)
                  /\ DictKeys(out) = keys
                  /\ \A k \in keys : DictGet(out, k) = EdValue(Winner(k))

\* 2021 (7.9), then 2021 again under another spelling (8.5), then 2019: 7.9 stays
C6_Witness ==
    /\ IsEdu /\ pc = "done" /\ IsList(rows)
    /\ Len(rows[2]) = 3
    /\ \A j \in 1..3 : EdValid(rows[2][j])
    /\ EdYear(rows[2][1]) = 2021 /\ EdValue(rows[2][1]) = Num(79, 10)
    /\ EdYear(rows[2][2]) = 2021 /\ EdValue(rows[2][2]) = Num(85, 10)
    /\ EdYear(rows[2][3]) = 2019
    /\ out = << <<(<<"b", "a", "h", "i", "a">>), Num(79, 10)>> >>

\* the record r without the field f
Without(r, f) == Dict([k \in DOMAIN r[2] \ {f} |-> r[2][k]])

\* the fields the running loader passes to as_float
CoercedFields ==
    CASE IsBf -> Range(TotalKeys)
      [] IsSan -> {"Sanitation_Access"}
      [] IsEdu -> {"Years_Schooling"}
      [] IsUnemp -> {"Unemployment_Rate"}

\* the positions and fields of the file whose content coerces to no value
NoValueFields(file) ==
    {jf \in (DOMAIN file[2]) \X CoercedFields :
        /\ IsDict(file[2][jf[1]])
        /\ jf[2] \in DOMAIN file[2][jf[1]][2]
        /\ as_float(file[2][jf[1]][2][jf[2]]) = None}

\* the file with field f of record j removed
FileWithout(file, j, f) == <<"list", [file[2] EXCEPT ![j] = Without(@, f)]>>

\* C7 as stated: in every loader, removing a field whose content coerces to no
\* value leaves the result of the loader unchanged.
C7_NoValueIsAbsent ==
    (fn \in Loaders /\ pc \in {"done", "raised"} /\ IsList(OwnFile)) =>
        \A jf \in NoValueFields(OwnFile) :
            RunLoader(FileWithout(OwnFile, jf[1], jf[2])) = RunLoader(OwnFile)

\* f is the earliest alias present in r, and the next alias present coerces to a value
ShadowsAValue(r, f) ==
    LET present == {a \in DOMAIN TotalKeys : TotalKeys[a] \in DOMAIN r[2]}
        later == {a \in present : a > SetMin(present)}
    IN  /\ TotalKeys[SetMin(present)] = f
        /\ later # {}
        /\ as_float(r[2][TotalKeys[SetMin(later)]]) # None

\* C7 amended: as stated for the three metric loaders; in the baseline loader
\* for every alias field except the earliest alias present of a record whose
\* next alias present coerces to a value.
C7_NoValueIsAbsentAmended ==
    (fn \in Loaders /\ pc \in {"done", "raised"} /\ IsList(OwnFile)) =>
        \A jf \in NoValueFields(OwnFile) :
            ~(IsBf /\ ShadowsAValue(OwnFile[2][jf[1]], jf[2])) =>
                RunLoader(FileWithout(OwnFile, jf[1], jf[2])) = RunLoader(OwnFile)

\* a baseline record whose total_paid is 7 and whose total is "%", stored with 7
C7_Witness ==
    /\ IsBf /\ pc = "done" /\ IsList(OwnFile)
    /\ \E jf \in NoValueFields(OwnFile) :
          /\ jf[2] = "total"
          /\ "total_paid" \in DOMAIN OwnFile[2][jf[1]][2]
    /\ \E k \in DOMAIN out : out[k][2].bf_total = Num(7, 1)

\* the state code of a baseline record, as the loader reads it
BfCode(r) == IF Truthy(Get(r, "UF")) THEN Get(r, "UF") ELSE Get(r, "uf")

\* a baseline record with a well-formed code of the table
BfCodeOk(r) ==
    /\ IsDict(r)
    /\ IsStr(BfCode(r))
    /\ Len(Strip(BfCode(r)[2])) = 2
    /\ DictHas(UF_TO_STATE, Upper(Strip(BfCode(r)[2])))

BfUf(r) == Upper(Strip(BfCode(r)[2]))
BfKey(r) == _norm(DictGet(UF_TO_STATE, BfUf(r)))

\* the alias order of the claim
AliasOrder == <<"total_pago_2021", "total_paid_2021", "total_paid", "total_pago", "total">>

AliasesPresent(r) == {a \in DOMAIN AliasOrder : AliasOrder[a] \in DOMAIN r[2]}

\* the coerced content of the earliest alias present, None when no alias is present
EarliestAlias(r) ==
    IF AliasesPresent(r) = {} THEN None
    ELSE as_float(r[2][AliasOrder[SetMin(AliasesPresent(r))]])

\* C9: an iteration of the baseline loader on a record with a well-formed code
\* of the table stores the total coerced from the earliest alias present in the
\* order total_pago_2021, total_paid_2021, total_paid, total_pago, total; it
\* stores nothing from any other alias, and it leaves the mapping unchanged when
\* no alias present coerces to a value.
C9_AliasProbing ==
    [][(IsBf /\ pc = "loop" /\ i' = i + 1 /\ BfCodeOk(Iter(rows)[i + 1])) =>
          LET r == Iter(rows)[i + 1]
              v == EarliestAlias(r)
          IN  /\ v # None =>
                    /\ DictHas(out', BfKey(r))
                    /\ DictGet(out', BfKey(r)) =
                          [State |-> DictGet(UF_TO_STATE, BfUf(r)), UF |-> BfUf(r), bf_total |-> v]
              /\ v = None => out' = out
              /\ (\A a \in AliasesPresent(r) : as_float(r[2][AliasOrder[a]]) = None)
                    => out' = out]_vars

\* the last record read holds total_paid = 7 and total = 9, and 7 is stored
C9_Witness ==
    /\ IsBf /\ pc = "loop" /\ i >= 1
    /\ LET r == Iter(rows)[i]
       IN  /\ BfCodeOk(r)
           /\ AliasesPresent(r) = {3, 5}
           /\ as_float(r[2]["total"]) = Num(9, 1)
           /\ DictGet(out, BfKey(r)).bf_total = Num(7, 1)

\* a record that passes all checks of its loader, its key and the entry it yields
PassesChecks(r) ==
    IF IsBf THEN BfCodeOk(r) /\ EarliestAlias(r) # None
    ELSE IsDict(r) /\ IsStr(Get(r, "State")) /\ as_float(Get(r, "Sanitation_Access")) # None

KeyOf(r) == IF IsBf THEN BfKey(r) ELSE _norm(Get(r, "State")[2])

EntryOf(r) ==
    IF IsBf
    THEN [State |-> DictGet(UF_TO_STATE, BfUf(r)), UF |-> BfUf(r), bf_total |-> EarliestAlias(r)]
    ELSE as_float(Get(r, "Sanitation_Access"))

\* C10: after any number of records, the baseline and the sanitation loader
\* hold for a key the entry of the last record read that passes all checks and
\* has that key, and no entry for a key without such a record.
C10_LastValidWins ==
    ((IsBf \/ IsSan) /\ pc \in {"loop", "done"} /\ Iterable(rows)) =>
        LET rs == Iter(rows)
            V == {j \in 1..i : PassesChecks(rs[j])}
            keys == {KeyOf(rs[j]) : j \in V}
        IN  /\ DictKeys(out) = keys
            /\ \A k \in keys :
                  DictGet(out, k) = EntryOf(rs[SetMax({j \in V : KeyOf(rs[j]) = k})])
            /\ Len(out) = Cardinality(keys)

\* sanitation: a value, a later value under another spelling, then a record
\* that is skipped: the later value stays
C10_Witness ==
    /\ IsSan /\ pc = "done" /\ IsList(rows) /\ Len(rows[2]) = 3
    /\ PassesChecks(rows[2][1]) /\ PassesChecks(rows[2][2]) /\ ~PassesChecks(rows[2][3])
    /\ Get(rows[2][1], "State") # Get(rows[2][2], "State")
    /\ EntryOf(rows[2][1]) # EntryOf(rows[2][2])
    /\ out = << <<KeyOf(rows[2][1]), EntryOf(rows[2][2])>> >>

-----------------------------------------------------------------------------
(* Claim about _norm (specification SpecNorm) *)

\* the code of the table whose display name is `name`
CodeOfName == UF_TO_STATE[CHOOSE j \in DOMAIN UF_TO_STATE : UF_TO_STATE[j][2] = name][1]

\* C8: a spelling that differs from a display name only by letter case,
\* diacritics, hyphen versus space and leading, trailing or repeated whitespace
\* has the key of the name, and a sanitation record that names the state by it
\* is joined to the baseline entry of the state.
C8_VariantsShareKey ==
    fn = "_norm" =>
        /\ _norm(variant) = _norm(name)
        /\ DictHas(STATE_TO_UF, _norm(variant))
        /\ DictGet(STATE_TO_UF, _norm(variant)) = CodeOfName
        /\ LET b == load_bf_totals_by_state_norm(
                        <<"list", <<Dict([UF |-> Str(CodeOfName), total |-> Num(1, 1)])>> >>)[2]
               san == load_sanitation_2022_by_state_norm(
                        <<"list", <<Dict([State |-> Str(variant),
                                          Sanitation_Access |-> Num(2, 1)])>> >>)[2]
           IN  join_rows(b, san, <<>>, <<>>).out =
                  << [UF |-> CodeOfName, State |-> name, bf_total |-> Num(1, 1),
                      dimension |-> SanLabel, value |-> Num(2, 1)] >>

\* "SAO-PAULO" as a spelling of the table's name of SP
C8_Witness ==
    /\ fn = "_norm"
    /\ name = SaoPaulo
    /\ variant = <<"S", "A", "O", "-", "P", "A", "U", "L", "O">>

====
